---- MODULE Spec2Model ----
(***************************************************************************)
(* Model of the Socket.IO room server of ar_jenga (src/server.cjs, the     *)
(* "full drop-in replacement" copy, lines 270-540): the rooms Map, the     *)
(* Room class and the seven socket handlers.  Every handler runs to        *)
(* completion (Node's single-threaded event loop), so each is one action.  *)
(***************************************************************************)
EXTENDS Integers, Sequences, FiniteSets, TLC

\* ------------------------------------------------------------------ bounds

\* Number of distinct block ids clients send.
MaxBlocks == 1

\* Largest coordinate of a block position clients send.
MaxCoord == 0

\* Socket ids.  Socket.IO ids are unique, so an id connects at most once.
SocketIds == {"s1", "s2"}

\* Values of Math.random().toString(36).substring(7).  The string is empty
\* when the base-36 expansion is short (0.5 gives "0.i", whose substring(7)
\* is ""), and clients may send any of these as roomId.
RoomIds == {"", "a"}

\* undefined / absent payload field
Undefined == <<>>

\* {x, y, z} objects clients send as base position
BasePositions == {<<0, 0, 0>>}

\* {x, y, z} objects clients send as block position
BlockPositions == {<<c, c, c>> : c \in 0..MaxCoord}

\* playerData objects clients send with createRoom / joinRoom.  Only the
\* fields the server reads or keeps are modelled: ready (any JS value, here
\* undefined or true) and basePosition.
PlayerDatas ==
  { [ready |-> "undefined", basePosition |-> Undefined],
    [ready |-> "true", basePosition |-> Undefined],
    [ready |-> "undefined", basePosition |-> <<0, 0, 0>>] }

AllBlockIds == <<"obj1", "obj2", "obj3">>

BlockIds == {AllBlockIds[i] : i \in 1..MaxBlocks}

Quaternions == {"q"}

BlockDatas == [id : BlockIds, position : BlockPositions, quaternion : Quaternions]

\* ------------------------------------------------------------------- state

VARIABLES
  open,     \* sockets currently connected
  closed,   \* sockets that have disconnected (their ids are never reused)
  rooms,    \* the rooms Map, as the sequence of its values in insertion order
  out,      \* what the last handler emitted, in order
  crashed,  \* an uncaught TypeError ended the process
  hist      \* history of the run, recorded by SpecH only; no handler reads it

vars == <<open, closed, rooms, out, crashed, hist>>

\* ----------------------------------------------------------- JS primitives

\* !!v for the values of PlayerDatas.ready
ToBoolean(v) == v = "true"

TruthyPositionMutant(v) == FALSE

\* truthiness of a basePosition (an object is truthy, undefined is not)
TruthyPosition(v) == v # Undefined

\* truthiness of a string: only "" is falsy
TruthyString(s) == s # ""

\* players.findIndex(p => p.socket.id === id), 1-based; 0 stands for -1
FindIndex(players, id) ==
  IF \E i \in 1..Len(players) : players[i].socket = id
  THEN CHOOSE i \in 1..Len(players) :
         /\ players[i].socket = id
         /\ \A j \in 1..(i - 1) : players[j].socket # id
  ELSE 0

\* Array.prototype.splice(index, 1)
Splice(players, index) ==
  [i \in 1..(Len(players) - 1) |-> IF i < index THEN players[i] ELSE players[i + 1]]

\* ------------------------------------------------------------ the rooms Map

\* position of key id in the Map, 0 when absent (rooms.get(id) is undefined)
MapIndex(rs, id) ==
  IF \E i \in 1..Len(rs) : rs[i].roomId = id
  THEN CHOOSE i \in 1..Len(rs) : rs[i].roomId = id
  ELSE 0

MapHas(rs, id) == MapIndex(rs, id) # 0

\* rooms.set(id, room): an existing key keeps its place and gets the new value
MapSet(rs, id, room) ==
  IF MapHas(rs, id) THEN [rs EXCEPT ![MapIndex(rs, id)] = room] ELSE Append(rs, room)

\* rooms.delete(id)
MapDelete(rs, id) == SelectSeq(rs, LAMBDA r : r.roomId # id)

\* ----------------------------------------------------------------- Room

\* new Room(roomId)
NewRoom(roomId) == [roomId |-> roomId, players |-> <<>>, gameState |-> {}]

\* Room.addPlayer
AddPlayer(room, socket, playerData) ==
  [room EXCEPT !.players =
     Append(@, [socket |-> socket,
                playerData |-> [name |-> socket,
                                ready |-> ToBoolean(playerData.ready),
                                basePosition |-> playerData.basePosition]])]

IsFullMutant(room) == Len(room.players) > 2

\* Room.isFull
IsFull(room) == Len(room.players) >= 2

\* Room.getState
GetState(room) ==
  [roomId |-> room.roomId,
   players |-> [i \in 1..Len(room.players) |-> room.players[i].playerData],
   gameState |-> room.gameState]

AllReadyMutant(room) == \E i \in 1..Len(room.players) : room.players[i].playerData.ready

\* room.players.every(p => p.playerData.ready)
AllReady(room) == \A i \in 1..Len(room.players) : room.players[i].playerData.ready

\* ------------------------------------------------------------- emitting

\* An emitted message.  Every connected socket is alone in the adapter room
\* named by its own id, so an emit addressed to a socket id reaches that
\* socket if it is connected: sockets is who receives such an emit.  An emit
\* addressed to any other name is a broadcast to that adapter room (room),
\* minus the sender for socket.to (except); who is in an adapter room is
\* Socket.IO's state, which no handler reads.
NoRoom == "none"

Msg(ev, sockets, room, except, arg) ==
  [ev |-> ev, sockets |-> sockets, room |-> room, except |-> except, arg |-> arg]

\* socket.emit
SocketEmit(socket, ev, arg) == Msg(ev, {socket}, NoRoom, {}, arg)

\* io.to(name).emit
IoTo(name, ev, arg) ==
  IF name \in SocketIds
  THEN Msg(ev, {name} \cap open, NoRoom, {}, arg)
  ELSE Msg(ev, {}, name, {}, arg)

\* socket.to(name).emit
SocketTo(socket, name, ev, arg) ==
  IF name \in SocketIds
  THEN Msg(ev, ({name} \cap open) \ {socket}, NoRoom, {socket}, arg)
  ELSE Msg(ev, {}, name, {socket}, arg)

Event(ev, from, roomId) == [ev |-> ev, from |-> from, roomId |-> roomId]

\* the empty history
NoHist ==
  [last |-> Event("none", "none", "none"),
   signalled |-> {},
   calibrated |-> {},
   turn |-> [r \in RoomIds |-> [started |-> FALSE, k |-> 0, currentTurn |-> "none",
                                holderLeft |-> FALSE]]]

\* -------------------------------------------------------------------- Init

Init ==
  /\ open = {}
  /\ closed = {}
  /\ rooms = <<>>
  /\ out = <<>>
  /\ crashed = FALSE
  /\ hist = NoHist

\* ----------------------------------------------------------------- actions

\* io.on('connection')
Connect(socket) ==
  /\ ~crashed
  /\ socket \notin open \cup closed
  /\ open' = open \cup {socket}
  /\ out' = <<>>
  /\ UNCHANGED <<closed, rooms, crashed>>

\* socket.on('createRoom'); roomId is the value Math.random() produced
CreateRoom(socket, playerData, roomId) ==
  /\ ~crashed
  /\ socket \in open
  /\ rooms' = MapSet(rooms, roomId, AddPlayer(NewRoom(roomId), socket, playerData))
  /\ out' = <<SocketEmit(socket, "roomCreated", roomId)>>
  /\ UNCHANGED <<open, closed, crashed>>

JoinRoomResultNoReturn(socket, roomId, playerData) ==
  LET i == MapIndex(rooms, roomId) IN
  IF i = 0 THEN
    [rooms |-> rooms, out |-> <<SocketEmit(socket, "roomError", "Room not found")>>]
  ELSE
    LET room == AddPlayer(rooms[i], socket, playerData) IN
    [rooms |-> [rooms EXCEPT ![i] = room],
     out |-> (IF IsFull(rooms[i])
              THEN <<SocketEmit(socket, "roomError", "Room is full")>> ELSE <<>>)
             \o <<SocketEmit(socket, "joinedRoom",
                             [roomId |-> roomId, state |-> GetState(room)])>>]

\* what the joinRoom handler leaves in the rooms Map and emits
JoinRoomResult(socket, roomId, playerData) ==
  LET i == MapIndex(rooms, roomId) IN
  IF i = 0 THEN
    [rooms |-> rooms, out |-> <<SocketEmit(socket, "roomError", "Room not found")>>]
  ELSE IF IsFull(rooms[i]) THEN
    [rooms |-> rooms, out |-> <<SocketEmit(socket, "roomError", "Room is full")>>]
  ELSE
    LET room == AddPlayer(rooms[i], socket, playerData) IN
    [rooms |-> [rooms EXCEPT ![i] = room],
     out |-> <<SocketEmit(socket, "joinedRoom",
                          [roomId |-> roomId, state |-> GetState(room)]),
               SocketTo(socket, roomId, "playerJoined",
                        [playerId |-> socket,
                         playerData |-> [name |-> socket,
                                         ready |-> playerData.ready,
                                         basePosition |-> playerData.basePosition]])>>]

\* socket.on('joinRoom')
JoinRoom(socket, roomId, playerData) ==
  /\ ~crashed
  /\ socket \in open
  /\ rooms' = JoinRoomResult(socket, roomId, playerData).rooms
  /\ out' = JoinRoomResult(socket, roomId, playerData).out
  /\ UNCHANGED <<open, closed, crashed>>

\* socket.on('set-base-position')
SetBasePosition(socket, roomId, position) ==
  /\ ~crashed
  /\ socket \in open
  /\ LET i == MapIndex(rooms, roomId) IN
     IF i = 0 THEN
       /\ out' = <<SocketEmit(socket, "roomError", "Room not found")>>
       /\ UNCHANGED rooms
     ELSE
       LET p == FindIndex(rooms[i].players, socket) IN
       /\ out' = <<>>
       /\ rooms' = IF p = 0 THEN rooms
                   ELSE [rooms EXCEPT ![i].players[p].playerData.basePosition = position]
  /\ UNCHANGED <<open, closed, crashed>>

FirstPlayerIdMutant(room) == room.players[Len(room.players)].playerData.name

\* room.players[0].playerData.name
FirstPlayerId(room) == room.players[1].playerData.name

\* socket.on('player-ready')
PlayerReady(socket, roomId) ==
  /\ ~crashed
  /\ socket \in open
  /\ LET i == MapIndex(rooms, roomId) IN
     IF i = 0 THEN
       /\ out' = <<SocketEmit(socket, "roomError", "Room not found")>>
       /\ UNCHANGED <<rooms, crashed>>
     ELSE
       LET p == FindIndex(rooms[i].players, socket)
           room == IF p = 0 THEN rooms[i]
                   ELSE [rooms[i] EXCEPT !.players[p].playerData.ready = TRUE]
           start == IoTo(roomId, "start-game", GetState(room).gameState)
       IN
       IF ~AllReady(room) THEN
         /\ rooms' = [rooms EXCEPT ![i] = room]
         /\ out' = <<>>
         /\ UNCHANGED crashed
       ELSE IF Len(room.players) = 0 THEN
         \* room.players[0] is undefined: reading .playerData throws
         /\ rooms' = [rooms EXCEPT ![i] = room]
         /\ out' = <<start>>
         /\ crashed' = TRUE
       ELSE
         LET firstPlayerId == FirstPlayerId(room) IN
         /\ rooms' = [rooms EXCEPT ![i] = room]
         /\ out' = <<start,
                     IoTo(roomId, "turn-update",
                          [currentTurn |-> firstPlayerId, roomId |-> roomId])>>
         /\ UNCHANGED crashed
  /\ UNCHANGED <<open, closed>>

RelativeChangeMutant(blockData, playerBasePosition) ==
  [id |-> blockData.id,
   relativePosition |-> <<blockData.position[1] + playerBasePosition[1],
                          blockData.position[2] + playerBasePosition[2],
                          blockData.position[3] + playerBasePosition[3]>>,
   quaternion |-> blockData.quaternion]

\* the relativeChange object of the update-block handler
RelativeChange(blockData, playerBasePosition) ==
  [id |-> blockData.id,
   relativePosition |-> <<blockData.position[1] - playerBasePosition[1],
                          blockData.position[2] - playerBasePosition[2],
                          blockData.position[3] - playerBasePosition[3]>>,
   quaternion |-> blockData.quaternion]

NextPlayerIndexMutant(currentPlayerIndex, length) == currentPlayerIndex

\* (currentPlayerIndex + 1) % room.players.length, on 1-based indices
NextPlayerIndex(currentPlayerIndex, length) == (currentPlayerIndex % length) + 1

\* socket.on('update-block')
UpdateBlock(socket, roomId, blockData) ==
  /\ ~crashed
  /\ socket \in open
  /\ LET i == MapIndex(rooms, roomId) IN
     IF i = 0 THEN
       /\ out' = <<>>
       /\ UNCHANGED rooms
     ELSE
       LET p == FindIndex(rooms[i].players, socket) IN
       IF p = 0 THEN
         /\ out' = <<>>
         /\ UNCHANGED rooms
       ELSE
         LET playerBasePosition == rooms[i].players[p].playerData.basePosition IN
         IF ~TruthyPosition(playerBasePosition) THEN
           /\ out' = <<>>
           /\ UNCHANGED rooms
         ELSE
           LET nextPlayerIndex == NextPlayerIndex(p, Len(rooms[i].players))
               nextPlayerId == rooms[i].players[nextPlayerIndex].playerData.name
           IN
           /\ out' = <<IoTo(roomId, "update-block",
                            [roomId |-> roomId,
                             blockData |-> RelativeChange(blockData, playerBasePosition)]),
                       IoTo(roomId, "turn-update",
                            [currentTurn |-> nextPlayerId, roomId |-> roomId])>>
           /\ UNCHANGED rooms
  /\ UNCHANGED <<open, closed, crashed>>

\* socket.on('tower-collapsed'); playerId is whatever string the client sent
TowerCollapsed(socket, roomId, playerId) ==
  /\ ~crashed
  /\ socket \in open
  /\ LET i == MapIndex(rooms, roomId) IN
     IF i = 0 THEN
       out' = <<SocketEmit(socket, "roomError", "Room not found")>>
     ELSE
       LET others == SelectSeq(rooms[i].players, LAMBDA p : p.socket # playerId) IN
       out' = <<IoTo(playerId, "game-result",
                     [message |-> "lost", roomId |-> roomId, playerId |-> playerId])>>
              \o [j \in 1..Len(others) |->
                    IoTo(others[j].socket, "game-result",
                         [message |-> "won", roomId |-> roomId])]
  /\ UNCHANGED <<open, closed, rooms, crashed>>

\* index in the Map of the first room whose players hold the socket, 0 if none
FirstRoomOf(rs, socket) ==
  IF \E i \in 1..Len(rs) : FindIndex(rs[i].players, socket) # 0
  THEN CHOOSE i \in 1..Len(rs) :
         /\ FindIndex(rs[i].players, socket) # 0
         /\ \A j \in 1..(i - 1) : FindIndex(rs[j].players, socket) = 0
  ELSE 0

\* socket.on('disconnect')
Disconnect(socket) ==
  /\ ~crashed
  /\ socket \in open
  /\ open' = open \ {socket}
  /\ closed' = closed \cup {socket}
  /\ LET i == FirstRoomOf(rooms, socket) IN
     IF i = 0 THEN
       /\ out' = <<>>
       /\ UNCHANGED rooms
     ELSE
       LET roomId == rooms[i].roomId
           spliced == [rooms EXCEPT ![i].players =
                         Splice(@, FindIndex(rooms[i].players, socket))]
       IN
       IF ~TruthyString(roomId) THEN
         /\ rooms' = spliced
         /\ out' = <<>>
       ELSE IF Len(spliced[i].players) = 0 THEN
         /\ rooms' = MapDelete(spliced, roomId)
         /\ out' = <<>>
       ELSE
         /\ rooms' = spliced
         /\ out' = <<SocketTo(socket, roomId, "playerDisconnected", socket)>>
  /\ UNCHANGED crashed

Next ==
  \/ \E s \in SocketIds : Connect(s) /\ UNCHANGED hist
  \/ \E s \in SocketIds, pd \in PlayerDatas, r \in RoomIds :
       CreateRoom(s, pd, r) /\ UNCHANGED hist
  \/ \E s \in SocketIds, r \in RoomIds, pd \in PlayerDatas :
       JoinRoom(s, r, pd) /\ UNCHANGED hist
  \/ \E s \in SocketIds, r \in RoomIds, pos \in BasePositions \cup {Undefined} :
       SetBasePosition(s, r, pos) /\ UNCHANGED hist
  \/ \E s \in SocketIds, r \in RoomIds : PlayerReady(s, r) /\ UNCHANGED hist
  \/ \E s \in SocketIds, r \in RoomIds, b \in BlockDatas :
       UpdateBlock(s, r, b) /\ UNCHANGED hist
  \/ \E s \in SocketIds, r \in RoomIds, c \in SocketIds :
       TowerCollapsed(s, r, c) /\ UNCHANGED hist
  \/ \E s \in SocketIds : Disconnect(s) /\ UNCHANGED hist

Spec == Init /\ [][Next]_vars

\* ------------------------------------------------------- recorded history

\* Room ids of the runs whose history is recorded.
HistRoomIds == {"a"}

IsParticipant(rs, roomId, socket) ==
  MapHas(rs, roomId) /\ FindIndex(rs[MapIndex(rs, roomId)].players, socket) # 0

Broadcasts(msgs, ev) == \E j \in 1..Len(msgs) : msgs[j].ev = ev

NoTurn == [started |-> FALSE, k |-> 0, currentTurn |-> "none", holderLeft |-> FALSE]

\* hist after a handler that neither replaces nor removes a room object:
\*   last        the event handled;
\*   signalled   <<room id, socket>>: the socket's own player-ready found it
\*               among the players of the room object now under that id;
\*   calibrated  likewise for its own set-base-position;
\*   turn        per room id: start-game has been broadcast, the number of
\*               update-block broadcasts since the latest start-game modulo 2,
\*               the currentTurn of the latest turn-update, and whether the
\*               socket named by it has left the started game, of two
\*               players who both sent player-ready, since the latest
\*               start-game.
Record(ev, from, roomId) ==
  hist' =
    [last |-> Event(ev, from, roomId),
     signalled |->
       IF ev = "player-ready" /\ IsParticipant(rooms, roomId, from)
       THEN hist.signalled \cup {<<roomId, from>>} ELSE hist.signalled,
     calibrated |->
       IF ev = "set-base-position" /\ IsParticipant(rooms, roomId, from)
       THEN hist.calibrated \cup {<<roomId, from>>} ELSE hist.calibrated,
     turn |->
       IF ev = "player-ready" /\ Broadcasts(out', "start-game")
       THEN [hist.turn EXCEPT ![roomId] =
               [started |-> TRUE, k |-> 0,
                currentTurn |-> IF Broadcasts(out', "turn-update")
                                THEN out'[2].arg.currentTurn ELSE "none",
                holderLeft |-> FALSE]]
       ELSE IF ev = "update-block" /\ Broadcasts(out', "turn-update")
       THEN [hist.turn EXCEPT ![roomId] =
               [started |-> @.started,
                k |-> IF @.started THEN (@.k + 1) % 2 ELSE @.k,
                currentTurn |-> out'[2].arg.currentTurn,
                holderLeft |-> @.holderLeft]]
       ELSE hist.turn]

\* hist after createRoom: a new room object is under roomId
RecordCreate(from, roomId) ==
  hist' =
    [last |-> Event("createRoom", from, roomId),
     signalled |-> {e \in hist.signalled : e[1] # roomId},
     calibrated |-> {e \in hist.calibrated : e[1] # roomId},
     turn |-> [hist.turn EXCEPT ![roomId] = NoTurn]]

\* hist after disconnect: the socket left the first room that held it, and
\* that room is gone if it was deleted
RecordDisconnect(from) ==
  LET i == FirstRoomOf(rooms, from)
      roomId == IF i = 0 THEN NoRoom ELSE rooms[i].roomId
      gone == i # 0 /\ ~MapHas(rooms', roomId)
      Keep(e) == e[1] # roomId \/ (~gone /\ e[2] # from)
  IN
  hist' =
    [last |-> Event("disconnect", from, NoRoom),
     signalled |-> {e \in hist.signalled : Keep(e)},
     calibrated |-> {e \in hist.calibrated : Keep(e)},
     turn |-> IF gone THEN [hist.turn EXCEPT ![roomId] = NoTurn]
              ELSE IF /\ i # 0
                      /\ hist.turn[roomId].started
                      /\ hist.turn[roomId].currentTurn = from
                      /\ Len(rooms[i].players) = 2
                      /\ \A j \in 1..2 :
                           <<roomId, rooms[i].players[j].socket>> \in hist.signalled
                      /\ FindIndex(rooms'[i].players, from) = 0
              THEN [hist.turn EXCEPT ![roomId].holderLeft = TRUE]
              ELSE hist.turn]

NextH ==
  \/ \E s \in SocketIds : Connect(s) /\ Record("connection", s, NoRoom)
  \/ \E s \in SocketIds, pd \in PlayerDatas, r \in HistRoomIds :
       CreateRoom(s, pd, r) /\ RecordCreate(s, r)
  \/ \E s \in SocketIds, r \in HistRoomIds, pd \in PlayerDatas :
       JoinRoom(s, r, pd) /\ Record("joinRoom", s, r)
  \/ \E s \in SocketIds, r \in HistRoomIds, pos \in BasePositions \cup {Undefined} :
       SetBasePosition(s, r, pos) /\ Record("set-base-position", s, r)
  \/ \E s \in SocketIds, r \in HistRoomIds :
       PlayerReady(s, r) /\ Record("player-ready", s, r)
  \/ \E s \in SocketIds, r \in HistRoomIds, b \in BlockDatas :
       UpdateBlock(s, r, b) /\ Record("update-block", s, r)
  \/ \E s \in SocketIds, r \in HistRoomIds, c \in SocketIds :
       TowerCollapsed(s, r, c) /\ Record("tower-collapsed", s, r)
  \/ \E s \in SocketIds : Disconnect(s) /\ RecordDisconnect(s)

\* the same handlers, with the history of the run recorded in hist
SpecH == Init /\ [][NextH]_vars

\* ------------------------------------------------------------------ claims

\* the room object under roomId (only used where MapHas(rooms, roomId))
RoomAt(rs, roomId) == rs[MapIndex(rs, roomId)]

\* the sockets in a player list
SocketsOf(players) == {players[j].socket : j \in 1..Len(players)}

\* C1: every live session has between 0 and 2 participants.
C1_AtMostTwoParticipants ==
  \A i \in 1..Len(rooms) : Len(rooms[i].players) \in 0..2

\* a session holds two participants after a join
C1_Witness ==
  /\ \E i \in 1..Len(rooms) : Len(rooms[i].players) = 2
  /\ Broadcasts(out, "joinedRoom")

\* C2: a joinRoom addressed to a session that has two participants emits
\* the "Room is full" error to the sender alone, emits nothing else (no
\* joinedRoom, no playerJoined) and leaves the directory unchanged.
C2_JoinFullRejected ==
  \A r \in RoomIds :
    (~crashed /\ MapHas(rooms, r) /\ Len(RoomAt(rooms, r).players) = 2)
      => \A s \in open, pd \in PlayerDatas :
           JoinRoomResult(s, r, pd) =
             [rooms |-> rooms,
              out |-> <<[ev |-> "roomError", sockets |-> {s}, room |-> NoRoom,
                         except |-> {}, arg |-> "Room is full"]>>]

\* a join has just been refused as full
C2_Witness ==
  /\ Len(out) = 1
  /\ out[1].ev = "roomError"
  /\ out[1].arg = "Room is full"
  /\ \E i \in 1..Len(rooms) : Len(rooms[i].players) = 2

\* C3: start-game is broadcast only when the session has exactly two
\* participants and each of them has itself sent player-ready for it.
C3_StartNeedsTwoSignalled ==
  (hist.last.ev = "player-ready" /\ Broadcasts(out, "start-game"))
    => LET r == hist.last.roomId IN
       /\ MapHas(rooms, r)
       /\ Len(RoomAt(rooms, r).players) = 2
       /\ \A s \in SocketsOf(RoomAt(rooms, r).players) : <<r, s>> \in hist.signalled

\* C4 (as claimed): in a started session with two participants (two
\* connections, each of which has itself sent player-ready), the currentTurn
\* of the latest turn-update is participants[k mod 2], k the number of
\* successful update-block events since the game started.
C4_RoundRobinByCount ==
  \A r \in RoomIds :
    (/\ MapHas(rooms, r)
     /\ hist.turn[r].started
     /\ Len(RoomAt(rooms, r).players) = 2
     /\ Cardinality(SocketsOf(RoomAt(rooms, r).players)) = 2
     /\ \A s \in SocketsOf(RoomAt(rooms, r).players) : <<r, s>> \in hist.signalled)
      => hist.turn[r].currentTurn =
           RoomAt(rooms, r).players[(hist.turn[r].k % 2) + 1].playerData.name

\* C4 (amended): a successful update-block sent by the participant at
\* (0-based) index i of the n current participants broadcasts update-block
\* and then a turn-update naming participants[(i + 1) mod n], whatever the
\* number of earlier updates: with two distinct participants, the one that
\* did not send the update.
C4_TurnFollowsSender ==
  [][\A s \in SocketIds, r \in RoomIds, b \in BlockDatas :
       (UpdateBlock(s, r, b) /\ out' # <<>>)
         => LET players == RoomAt(rooms, r).players
                n == Len(players)
                i == FindIndex(players, s) - 1
            IN
            /\ Len(out') = 2
            /\ out'[1].ev = "update-block"
            /\ out'[2].ev = "turn-update"
            /\ out'[2].arg.currentTurn = players[((i + 1) % n) + 1].socket
            /\ (n = 2 /\ players[1].socket # players[2].socket)
                 => out'[2].arg.currentTurn \in SocketsOf(players) \ {s}]_vars

\* the second of two distinct participants has sent a successful
\* update-block in a started session, and the turn-update names the first
C4_Witness ==
  /\ hist.last.ev = "update-block"
  /\ MapHas(rooms, hist.last.roomId)
  /\ hist.turn[hist.last.roomId].started
  /\ LET players == RoomAt(rooms, hist.last.roomId).players IN
     /\ Len(players) = 2
     /\ players[1].socket # players[2].socket
     /\ hist.last.from = players[2].socket
     /\ Len(out) = 2
     /\ out[2].ev = "turn-update"
     /\ out[2].arg.currentTurn = players[1].socket

\* C5: an update-block from a participant that has not itself sent
\* set-base-position for the session emits nothing and changes no session.
C5_UncalibratedUpdateFails ==
  [][\A s \in SocketIds, r \in RoomIds, b \in BlockDatas :
       (UpdateBlock(s, r, b) /\ IsParticipant(rooms, r, s)
          /\ <<r, s>> \notin hist.calibrated)
         => out' = <<>> /\ rooms' = rooms]_vars

\* C6: when a connection that is the only participant of a session closes,
\* the session is not in the directory afterwards (a joinRoom with its id
\* gets "Room not found").
C6_LastDepartureDestroys ==
  [][\A s \in SocketIds :
       Disconnect(s)
         => \A i \in 1..Len(rooms) :
              (rooms[i].players # <<>> /\ SocketsOf(rooms[i].players) = {s})
                => ~MapHas(rooms', rooms[i].roomId)]_vars

\* sockets that receive the game-result with the given message
ResultTo(msgs, message) ==
  UNION {msgs[j].sockets : j \in {k \in 1..Len(msgs) :
                                    msgs[k].ev = "game-result"
                                    /\ msgs[k].arg.message = message}}

\* C7: a tower-collapsed naming the connection c on a live session delivers
\* "lost" to c and no one else, "won" to exactly the participants of the
\* session other than c, at most one of them, and both to nobody.
C7_CollapseResults ==
  [][\A s \in SocketIds, r \in RoomIds, c \in SocketIds :
       (TowerCollapsed(s, r, c) /\ MapHas(rooms, r) /\ c \in open)
         => /\ ResultTo(out', "lost") = {c}
            /\ ResultTo(out', "won") = SocketsOf(RoomAt(rooms, r).players) \ {c}
            /\ Cardinality(ResultTo(out', "won")) <= 1
            /\ ResultTo(out', "lost") \cap ResultTo(out', "won") = {}]_vars

\* places <<room, index>> of the player lists that hold the socket
PlacesOf(rs, socket) ==
  {e \in UNION {{<<i, j>> : j \in 1..Len(rs[i].players)} : i \in 1..Len(rs)} :
     rs[e[1]].players[e[2]].socket = socket}

\* C8: a connected socket is a participant of at most one session, once.
C8_AtMostOneMembership ==
  \A s \in open : Cardinality(PlacesOf(rooms, s)) <= 1

\* C9: no session holds a closed connection, and no session has zero
\* participants.
C9_ParticipantsAreOpen ==
  \A i \in 1..Len(rooms) :
    /\ rooms[i].players # <<>>
    /\ SocketsOf(rooms[i].players) \subseteq open

\* C10: createRoom never produces the id of a live session, and leaves
\* every live session in the directory as it was.
C10_CreateNeverCollides ==
  [][\A s \in SocketIds, pd \in PlayerDatas, r \in RoomIds :
       CreateRoom(s, pd, r)
         => /\ ~MapHas(rooms, r)
            /\ \A i \in 1..Len(rooms) :
                 /\ MapHas(rooms', rooms[i].roomId)
                 /\ RoomAt(rooms', rooms[i].roomId) = rooms[i]]_vars

\* the playerData of every player of every room, by place <<room, index>>
PlayerDataAt(rs, i, j) == rs[i].players[j].playerData

\* a handler that neither adds nor removes a room or a player changed, if
\* anything, only the field `field` of the players of `socket` in room `roomId`
OnlyOwnFieldChanges(socket, roomId, field) ==
  /\ Len(rooms') = Len(rooms)
  /\ \A i \in 1..Len(rooms) :
       /\ Len(rooms'[i].players) = Len(rooms[i].players)
       /\ \A j \in 1..Len(rooms[i].players) :
            PlayerDataAt(rooms', i, j) # PlayerDataAt(rooms, i, j)
              => /\ rooms[i].roomId = roomId
                 /\ rooms[i].players[j].socket = socket
                 /\ \A f \in {"name", "ready", "basePosition"} \ {field} :
                      PlayerDataAt(rooms', i, j)[f] = PlayerDataAt(rooms, i, j)[f]

\* C11: a participant added by createRoom or joinRoom starts with
\* ready = FALSE and no basePosition whatever playerData it supplies; ready
\* only changes from FALSE to TRUE and only by that participant's own
\* player-ready; basePosition only changes by that participant's own
\* set-base-position.
C11_FreshThenOwnEventsOnly ==
  [][/\ \A s \in SocketIds, pd \in PlayerDatas, r \in RoomIds :
          CreateRoom(s, pd, r)
            => LET p == RoomAt(rooms', r).players[1].playerData IN
               p.ready = FALSE /\ p.basePosition = Undefined
     /\ \A s \in SocketIds, r \in RoomIds, pd \in PlayerDatas :
          (JoinRoom(s, r, pd) /\ rooms' # rooms)
            => LET ps == RoomAt(rooms', r).players
                   p == ps[Len(ps)].playerData
               IN
               /\ p.ready = FALSE /\ p.basePosition = Undefined
               /\ SubSeq(ps, 1, Len(ps) - 1) = RoomAt(rooms, r).players
     /\ \A s \in SocketIds, r \in RoomIds :
          PlayerReady(s, r)
            => /\ OnlyOwnFieldChanges(s, r, "ready")
               /\ \A i \in 1..Len(rooms) : \A j \in 1..Len(rooms[i].players) :
                    PlayerDataAt(rooms', i, j).ready # PlayerDataAt(rooms, i, j).ready
                      => ~PlayerDataAt(rooms, i, j).ready
     /\ \A s \in SocketIds, r \in RoomIds, pos \in BasePositions \cup {Undefined} :
          SetBasePosition(s, r, pos) => OnlyOwnFieldChanges(s, r, "basePosition")
     /\ \A s \in SocketIds, r \in RoomIds, b \in BlockDatas :
          UpdateBlock(s, r, b) => rooms' = rooms
     /\ \A s \in SocketIds, r \in RoomIds, c \in SocketIds :
          TowerCollapsed(s, r, c) => rooms' = rooms]_vars

\* C12: after a successful update-block for block id o, the gameState of the
\* room holds for o the relative position and quaternion of that update, so
\* that the gameState of a later start-game and the state returned to a
\* later joiner (both read it through getState) contain it.
C12_UpdateIsTracked ==
  [][\A s \in SocketIds, r \in RoomIds, b \in BlockDatas :
       (UpdateBlock(s, r, b) /\ Broadcasts(out', "update-block"))
         => LET tracked == GetState(RoomAt(rooms', r)).gameState
                sent == out'[1].arg.blockData
            IN
            /\ sent.id = b.id
            /\ \E e \in tracked : e = sent
            /\ \A e \in tracked : e.id = b.id => e = sent]_vars

\* ------------------------------------------------- update-block arithmetic

\* Base positions, block positions and quaternions of the runs that exercise
\* the subtraction of the update-block handler: two distinct base positions,
\* so that the two players of a room can hold different ones.
PosBasePositions == BasePositions \cup {<<1, 2, 3>>}

PosBlockPositions == BlockPositions \cup {<<4, 6, 8>>}

PosQuaternions == Quaternions \cup {"q2"}

PosBlockDatas ==
  [id : BlockIds, position : PosBlockPositions, quaternion : PosQuaternions]

NextP ==
  \/ \E s \in SocketIds : Connect(s) /\ Record("connection", s, NoRoom)
  \/ \E s \in SocketIds, pd \in PlayerDatas, r \in HistRoomIds :
       CreateRoom(s, pd, r) /\ RecordCreate(s, r)
  \/ \E s \in SocketIds, r \in HistRoomIds, pd \in PlayerDatas :
       JoinRoom(s, r, pd) /\ Record("joinRoom", s, r)
  \/ \E s \in SocketIds, r \in HistRoomIds, pos \in PosBasePositions \cup {Undefined} :
       SetBasePosition(s, r, pos) /\ Record("set-base-position", s, r)
  \/ \E s \in SocketIds, r \in HistRoomIds :
       PlayerReady(s, r) /\ Record("player-ready", s, r)
  \/ \E s \in SocketIds, r \in HistRoomIds, b \in PosBlockDatas :
       UpdateBlock(s, r, b) /\ Record("update-block", s, r)
  \/ \E s \in SocketIds, r \in HistRoomIds, c \in SocketIds :
       TowerCollapsed(s, r, c) /\ Record("tower-collapsed", s, r)
  \/ \E s \in SocketIds : Disconnect(s) /\ RecordDisconnect(s)

\* the same handlers as SpecH, with clients sending the positions above
SpecP == Init /\ [][NextP]_vars

\* the basePosition stored for the sender: that of the first player whose
\* socket is the sender's
OwnBasePosition(rs, roomId, socket) ==
  LET players == RoomAt(rs, roomId).players IN
  players[FindIndex(players, socket)].playerData.basePosition

\* C13: the update-block broadcast of a successful update-block from a
\* player with basePosition b and block position p carries
\* relativePosition = p - b component-wise, with the sender's own b, and the
\* id and the quaternion of the request unchanged.
C13_RelativeToOwnBase ==
  [][Broadcasts(out', "update-block")
       => \A s \in SocketIds, r \in HistRoomIds, bd \in PosBlockDatas :
            UpdateBlock(s, r, bd)
              => LET own == OwnBasePosition(rooms, r, s)
                     sent == out'[1].arg.blockData
                 IN
                 /\ out'[1].ev = "update-block"
                 /\ sent.id = bd.id
                 /\ sent.quaternion = bd.quaternion
                 /\ \A c \in 1..3 :
                      sent.relativePosition[c] = bd.position[c] - own[c]]_vars

\* base position (1,2,3) and position (4,6,8) gave (3,4,5), in a room whose
\* other player holds a different base position
C13_Witness ==
  /\ hist.last.ev = "update-block"
  /\ Broadcasts(out, "update-block")
  /\ out[1].arg.blockData.relativePosition = <<3, 4, 5>>
  /\ LET players == RoomAt(rooms, hist.last.roomId).players IN
     /\ Len(players) = 2
     /\ players[1].socket # players[2].socket
     /\ OwnBasePosition(rooms, hist.last.roomId, hist.last.from) = <<1, 2, 3>>
     /\ \E j \in 1..2 :
          /\ players[j].socket # hist.last.from
          /\ players[j].playerData.basePosition = <<0, 0, 0>>

\* the handler emitted one roomError, to the socket alone
OneErrorTo(msgs, socket) ==
  /\ Len(msgs) = 1
  /\ msgs[1].ev = "roomError"
  /\ msgs[1].sockets = {socket}
  /\ msgs[1].room = NoRoom

\* C14: every failed operation emits exactly one error event, to the sender
\* alone, and nothing to anyone else; in particular an update-block that
\* fails because the room does not exist, the sender is not a player of it,
\* or the sender has no basePosition.
C14_FailureIsOneUnicastError ==
  [][/\ \A s \in SocketIds, r \in RoomIds, b \in BlockDatas :
          (/\ UpdateBlock(s, r, b)
           /\ \/ ~MapHas(rooms, r)
              \/ ~IsParticipant(rooms, r, s)
              \/ ~TruthyPosition(OwnBasePosition(rooms, r, s)))
            => OneErrorTo(out', s)
     /\ \A s \in SocketIds, r \in RoomIds, pd \in PlayerDatas :
          (/\ JoinRoom(s, r, pd)
           /\ \/ ~MapHas(rooms, r)
              \/ IsFull(RoomAt(rooms, r)))
            => OneErrorTo(out', s)
     /\ \A s \in SocketIds, r \in RoomIds, pos \in BasePositions \cup {Undefined} :
          (SetBasePosition(s, r, pos) /\ ~IsParticipant(rooms, r, s))
            => OneErrorTo(out', s)
     /\ \A s \in SocketIds, r \in RoomIds :
          (PlayerReady(s, r) /\ ~IsParticipant(rooms, r, s))
            => OneErrorTo(out', s)
     /\ \A s \in SocketIds, r \in RoomIds, c \in SocketIds :
          (TowerCollapsed(s, r, c) /\ ~MapHas(rooms, r))
            => OneErrorTo(out', s)]_vars

\* the handler emitted start-game or turn-update
StartsOrTurns(msgs) == Broadcasts(msgs, "start-game") \/ Broadcasts(msgs, "turn-update")

\* C15: a player-ready broadcasts start-game and turn-update only if it
\* completes allReady: the sender is a player of the room, and allReady was
\* false before the event and is true after it.  A player-ready from a
\* socket that is not a player of the room, or one repeated after start-game
\* has been broadcast in the room, changes no state and broadcasts nothing.
C15_StartOnlyOnCompletion ==
  [][\A s \in SocketIds, r \in HistRoomIds :
       PlayerReady(s, r)
         => /\ StartsOrTurns(out')
                 => /\ IsParticipant(rooms, r, s)
                    /\ ~AllReady(RoomAt(rooms, r))
                    /\ AllReady(RoomAt(rooms', r))
            /\ (MapHas(rooms, r) /\ (~IsParticipant(rooms, r, s) \/ hist.turn[r].started))
                 => /\ rooms' = rooms
                    /\ ~StartsOrTurns(out')]_vars

\* C16: when a player-ready starts the game, start-game is emitted to the
\* room before the turn-update of the same handler run, and that turn-update
\* names players[0], the earliest-added player still in the room.  (Only
\* player-ready emits start-game; out and rooms are as that run left them.)
C16_StartThenFirstPlayersTurn ==
  Broadcasts(out, "start-game")
    => LET r == out[1].room
           players == RoomAt(rooms, r).players
       IN
       /\ out[1].ev = "start-game"
       /\ \A j \in 1..Len(out) :
            out[j].ev = "turn-update"
              => /\ j = 2
                 /\ out[j].room = r
                 /\ players # <<>>
                 /\ out[j].arg.currentTurn = players[1].socket
       /\ players # <<>> => (Len(out) = 2 /\ out[2].ev = "turn-update")

\* a game of two players was started and the turn went to the first of them
C16_Witness ==
  /\ Len(out) = 2
  /\ out[1].ev = "start-game"
  /\ out[2].ev = "turn-update"
  /\ LET players == RoomAt(rooms, out[1].room).players IN
     /\ Len(players) = 2
     /\ players[1].socket # players[2].socket
     /\ out[2].arg.currentTurn = players[1].socket

\* C17: no turn-update is broadcast in a room before start-game has been
\* broadcast in that room, so an update-block sent before the game has
\* started does not announce a turn.
C17_NoTurnBeforeStart ==
  \A j \in 1..Len(out) :
    out[j].ev = "turn-update" => hist.turn[out[j].room].started

\* C18: every turn-update names as currentTurn a player of that room at the
\* moment it is emitted, and no handler indexes an empty or out-of-range
\* position of the player list (which in JavaScript yields undefined, whose
\* property read throws), also after players have left.
C18_TurnNamesPlayerNoBadIndex ==
  /\ ~crashed
  /\ \A j \in 1..Len(out) :
       out[j].ev = "turn-update"
         => /\ MapHas(rooms, out[j].room)
            /\ out[j].arg.currentTurn \in SocketsOf(RoomAt(rooms, out[j].room).players)

\* C19 as stated: once the player holding the turn has left a started game,
\* no further turn-update is emitted in that room and no update-block of the
\* remaining player is accepted or broadcast.
C19_RemainingCannotAct ==
  \A r \in HistRoomIds :
    (hist.turn[r].holderLeft /\ MapHas(rooms, r))
      => ~\E j \in 1..Len(out) :
            out[j].room = r /\ out[j].ev \in {"update-block", "turn-update"}

\* C19, amended: once the player holding the turn has left a started game,
\* an update-block of the remaining player, alone in the room and with a
\* basePosition, is accepted: update-block is broadcast and then a
\* turn-update that names the remaining player itself.
C19_RemainingPlaysOn ==
  [][\A s \in SocketIds, r \in HistRoomIds, b \in BlockDatas :
       (/\ UpdateBlock(s, r, b)
        /\ hist.turn[r].holderLeft
        /\ MapHas(rooms, r)
        /\ SocketsOf(RoomAt(rooms, r).players) = {s}
        /\ Len(RoomAt(rooms, r).players) = 1
        /\ OwnBasePosition(rooms, r, s) # Undefined)
         => /\ Len(out') = 2
            /\ out'[1].ev = "update-block" /\ out'[1].room = r
            /\ out'[2].ev = "turn-update" /\ out'[2].room = r
            /\ out'[2].arg.currentTurn = s
            /\ rooms' = rooms]_vars

\* the remaining player, who sent its own player-ready and
\* set-base-position, moved a block after the turn holder had left
C19_Witness ==
  /\ hist.last.ev = "update-block"
  /\ hist.turn[hist.last.roomId].holderLeft
  /\ MapHas(rooms, hist.last.roomId)
  /\ Len(RoomAt(rooms, hist.last.roomId).players) = 1
  /\ RoomAt(rooms, hist.last.roomId).players[1].socket = hist.last.from
  /\ <<hist.last.roomId, hist.last.from>> \in hist.signalled \cap hist.calibrated
  /\ Len(out) = 2
  /\ out[2].ev = "turn-update"
  /\ out[2].arg.currentTurn = hist.last.from

\* --------------------------------------------- two players getting ready

\* The room of the runs below: "a", created by s1 and joined by s2, both
\* with an empty playerData, so that neither is ready.
ReadyRoomId == "a"

EmptyPlayerData == [ready |-> "undefined", basePosition |-> Undefined]

ReadyRoom ==
  AddPlayer(AddPlayer(NewRoom(ReadyRoomId), "s1", EmptyPlayerData), "s2", EmptyPlayerData)

\* hist of these runs: the senders of player-ready in the order their events
\* were handled, how many of these events broadcast start-game, and the
\* sender of the latest one that did
InitR ==
  /\ open = SocketIds
  /\ closed = {}
  /\ rooms = <<ReadyRoom>>
  /\ out = <<>>
  /\ crashed = FALSE
  /\ hist = [order |-> <<>>, starts |-> 0, starter |-> "none"]

RecordReady(from) ==
  hist' = [order |-> Append(hist.order, from),
           starts |-> IF Broadcasts(out', "start-game")
                      THEN hist.starts + 1 ELSE hist.starts,
           starter |-> IF Broadcasts(out', "start-game") THEN from ELSE hist.starter]

\* Each player sends player-ready once; set-base-position and update-block
\* events of both players arrive in between, in any order.  Handlers run one
\* at a time, each to completion.
NextR ==
  \/ \E s \in SocketIds :
       /\ \A k \in 1..Len(hist.order) : hist.order[k] # s
       /\ PlayerReady(s, ReadyRoomId)
       /\ RecordReady(s)
  \/ \E s \in SocketIds, pos \in PosBasePositions \cup {Undefined} :
       SetBasePosition(s, ReadyRoomId, pos) /\ UNCHANGED hist
  \/ \E s \in SocketIds, b \in PosBlockDatas :
       UpdateBlock(s, ReadyRoomId, b) /\ UNCHANGED hist

SpecR == InitR /\ [][NextR]_vars

\* C20: handlers run one at a time; in a room of two players, neither ready,
\* who each send player-ready once, whatever the order of delivery and
\* however set-base-position and update-block events are interleaved,
\* start-game is broadcast exactly once, by the later of the two
\* player-ready events: never before it, and never twice.
C20_StartExactlyOnceByLater ==
  /\ Len(hist.order) < 2 => hist.starts = 0
  /\ Len(hist.order) = 2 => (hist.starts = 1 /\ hist.starter = hist.order[2])

\* both player-ready events were handled, s2's first, with set-base-position
\* and update-block events handled before, between or after them
C20_Witness ==
  /\ hist.order = <<"s2", "s1">>
  /\ hist.starts = 1
  /\ Broadcasts(out, "update-block")
  /\ \A j \in 1..2 : ReadyRoom.players[j].playerData.basePosition = Undefined
  /\ \A j \in 1..2 : RoomAt(rooms, ReadyRoomId).players[j].playerData.basePosition # Undefined

====
